---------------------------- MODULE Spec2Model ----------------------------
(***************************************************************************)
(* Model of the two Streamlit applications of the repository:              *)
(*                                                                         *)
(*   finance.py  the stock dashboard: the three indicator functions        *)
(*               (calculate_sma, calculate_bollinger_bands, calculate_rsi) *)
(*               and the subplot layout / trace placement of one script    *)
(*               run;                                                      *)
(*   App.py      the poll: per-browser-session state (st.session_state),   *)
(*               the two data files votes.csv and voters.txt, and the      *)
(*               button handlers.                                          *)
(*                                                                         *)
(* Three specifications share the variables: SpecIndicators (one call of   *)
(* an indicator function on a bounded price series), SpecLayout (one run   *)
(* of the dashboard script for every combination of the four check boxes)  *)
(* and SpecPoll / SpecPollSingle (several / one browser session of the     *)
(* poll).                                                                  *)
(*                                                                         *)
(* Numbers.  pandas computes in IEEE doubles.  The model keeps the exact   *)
(* value (a rational, plus a rational multiple of the square root of the   *)
(* rolling variance for the Bollinger bands) and the special values NaN,   *)
(* +inf and -inf, with the IEEE rules for them.  Rounding error is not     *)
(* modelled.  "Undefined" in the specification is NaN in the code.         *)
(***************************************************************************)
EXTENDS Integers, Sequences, FiniteSets, TLC

VARIABLES
    \* ---- finance.py, indicator call ----
    close,          \* data['Close']: the closing prices, a sequence of integers
    call,           \* the indicator call made: [fn, periods, std_dev], fn = "none" before it
    result,         \* what the call returned or raised
    \* ---- finance.py, one script run ----
    pc,             \* position in the script
    flags,          \* [volume_flag, rsi_flag, sma_flag, bb_flag]
    row_heights,    \* in tenths (7 is 0.7)
    specs,          \* one entry per row: the row's secondary_y
    traces,         \* fig.add_trace / fig.add_hline calls so far: <<[name, row]>>
    yaxis_titles,   \* fig.update_yaxes calls so far: <<[title, row]>>
    \* ---- App.py ----
    votes_file,     \* votes.csv
    voters_file,    \* voters.txt
    session,        \* per browser session: st.session_state and the name text box
    ballots,        \* history: how many votes were recorded under each name
    voter_deleted,  \* history: Delete Selected Voter has removed a name
    last            \* history: the kind of the last script run

vars == <<close, call, result, pc, flags, row_heights, specs, traces, yaxis_titles,
          votes_file, voters_file, session, ballots, voter_deleted, last>>

indicatorVars == <<close, call, result>>
layoutVars    == <<pc, flags, row_heights, specs, traces, yaxis_titles>>
pollVars      == <<votes_file, voters_file, session, ballots, voter_deleted, last>>

-----------------------------------------------------------------------------
(***************************************************************************)
(* Bounds of the model.                                                    *)
(***************************************************************************)
MaxLen    == 5      \* longest price series
MaxPeriod == 4      \* largest rolling window tried (smallest is -1)

\* the closing prices a series is drawn from
Prices  == {10, 11, 12}
Periods == (0 - 1)..MaxPeriod

RECURSIVE SeqsUpTo(_, _)
SeqsUpTo(S, n) ==
    IF n = 0 THEN {<<>>}
    ELSE LET shorter == SeqsUpTo(S, n - 1)
         IN  shorter \cup {Append(s, x) : s \in {t \in shorter : Len(t) = n - 1}, x \in S}

-----------------------------------------------------------------------------
(***************************************************************************)
(* Exact rationals <<n, d>>, d > 0, in lowest terms.                       *)
(***************************************************************************)
Abs(x) == IF x < 0 THEN 0 - x ELSE x

RECURSIVE GCD(_, _)
GCD(a, b) == IF b = 0 THEN a ELSE GCD(b, a % b)

QNorm(n, d) ==
    LET s == IF d < 0 THEN 0 - 1 ELSE 1
        g == GCD(Abs(n), Abs(d))
    IN  <<(s * n) \div g, (s * d) \div g>>

QZero == <<0, 1>>
QInt(n) == <<n, 1>>
QAdd(x, y) == QNorm(x[1] * y[2] + y[1] * x[2], x[2] * y[2])
QNeg(x)    == <<0 - x[1], x[2]>>
QMul(x, y) == QNorm(x[1] * y[1], x[2] * y[2])
QDiv(x, y) == QNorm(x[1] * y[2], x[2] * y[1])      \* y /= 0
QSign(x)   == IF x[1] > 0 THEN 1 ELSE IF x[1] < 0 THEN 0 - 1 ELSE 0

(***************************************************************************)
(* float64 values.  k = "num": the value a + c * sqrt(v), with v the       *)
(* rolling variance it came from (c = 0 and v = 0 for a plain rational).   *)
(***************************************************************************)
Num(q)  == [k |-> "num", a |-> q, c |-> QZero, v |-> QZero]
NaN     == [k |-> "nan", a |-> QZero, c |-> QZero, v |-> QZero]
PosInf  == [k |-> "inf", a |-> QZero, c |-> QZero, v |-> QZero]
NegInf  == [k |-> "ninf", a |-> QZero, c |-> QZero, v |-> QZero]
F(n)    == Num(QInt(n))

IsNaN(x)   == x.k = "nan"
IsPlain(x) == x.k = "num" /\ x.c = QZero

Surd(a, c, v) ==
    IF c = QZero \/ v = QZero THEN Num(a)
    ELSE [k |-> "num", a |-> a, c |-> c, v |-> v]

\* sqrt of a rational >= 0
FSqrt(q) == Surd(QZero, QInt(1), q)

FNeg(x) ==
    CASE x.k = "nan"  -> NaN
      [] x.k = "inf"  -> NegInf
      [] x.k = "ninf" -> PosInf
      [] OTHER        -> Surd(QNeg(x.a), QNeg(x.c), x.v)

FAdd(x, y) ==
    CASE x.k = "nan" \/ y.k = "nan" -> NaN
      [] x.k = "inf"  -> IF y.k = "ninf" THEN NaN ELSE PosInf
      [] x.k = "ninf" -> IF y.k = "inf" THEN NaN ELSE NegInf
      [] y.k = "inf"  -> PosInf
      [] y.k = "ninf" -> NegInf
      [] OTHER        -> Surd(QAdd(x.a, y.a), QAdd(x.c, y.c),
                              IF x.c = QZero THEN y.v ELSE x.v)

FSub(x, y) == FAdd(x, FNeg(y))

\* x * m for an integer m (std * std_dev)
FMulInt(x, m) ==
    CASE x.k = "nan" -> NaN
      [] x.k \in {"inf", "ninf"} ->
            IF m = 0 THEN NaN
            ELSE IF (m > 0) = (x.k = "inf") THEN PosInf ELSE NegInf
      [] OTHER -> Surd(QMul(x.a, QInt(m)), QMul(x.c, QInt(m)), x.v)

\* faulty variant of FDiv: a zero divisor gives NaN whatever the dividend
FDiv_zero_divisor_nan(x, y) ==
    CASE x.k = "nan" \/ y.k = "nan" -> NaN
      [] x.k \in {"inf", "ninf"} /\ y.k \in {"inf", "ninf"} -> NaN
      [] x.k \in {"inf", "ninf"} ->
            IF (QSign(y.a) >= 0) = (x.k = "inf") THEN PosInf ELSE NegInf
      [] y.k \in {"inf", "ninf"} -> F(0)
      [] y.a = QZero -> NaN
      [] OTHER -> Num(QDiv(x.a, y.a))

\* x / y for plain values: IEEE division, no exception on a zero divisor
\* (numpy/pandas return inf or NaN)
FDiv(x, y) ==
    CASE x.k = "nan" \/ y.k = "nan" -> NaN
      [] x.k \in {"inf", "ninf"} /\ y.k \in {"inf", "ninf"} -> NaN
      [] x.k \in {"inf", "ninf"} ->
            IF (QSign(y.a) >= 0) = (x.k = "inf") THEN PosInf ELSE NegInf
      [] y.k \in {"inf", "ninf"} -> F(0)
      [] y.a = QZero ->
            IF x.a = QZero THEN NaN
            ELSE IF QSign(x.a) > 0 THEN PosInf ELSE NegInf
      [] OTHER -> Num(QDiv(x.a, y.a))

\* x > 0, x < 0 as pandas evaluates them: False for NaN
FGtZero(x) == x.k = "inf" \/ (x.k = "num" /\ QSign(x.a) > 0)
FLtZero(x) == x.k = "ninf" \/ (x.k = "num" /\ QSign(x.a) < 0)


-----------------------------------------------------------------------------
(***************************************************************************)
(* pandas Series operations used by finance.py.  A Series is a sequence of *)
(* float64 values; positions are 1..Len (position i is index i-1 of the    *)
(* Python code).                                                           *)
(***************************************************************************)

\* data['Close']
Close(data) == [i \in 1..Len(data) |-> F(data[i])]

\* Series.diff(): no previous element at the first position, so NaN there
diff(s) == [i \in 1..Len(s) |-> IF i = 1 THEN NaN ELSE FSub(s[i], s[i - 1])]

\* delta > 0 and delta < 0: boolean Series, False where the element is NaN
gt_zero(s) == [i \in 1..Len(s) |-> FGtZero(s[i])]
lt_zero(s) == [i \in 1..Len(s) |-> FLtZero(s[i])]

\* Series.where(cond, other): keeps the element where cond is True and puts
\* `other` everywhere else, also where the element is NaN
where(s, cond, other) == [i \in 1..Len(s) |-> IF cond[i] THEN s[i] ELSE other]

\* Series.rolling(window=w): pandas raises ValueError("window must be an
\* integer 0 or greater") for w < 0 and accepts w = 0
rolling_raises(w) == w < 0

\* the non-NaN observations of the window of `w` positions ending at i
Observations(s, w, i) == {j \in 1..Len(s) : j > i - w /\ j <= i /\ ~IsNaN(s[j])}

RECURSIVE SumOver(_, _)
SumOver(s, J) ==
    IF J = {} THEN F(0)
    ELSE LET j == CHOOSE x \in J : \A y \in J : x >= y
         IN  FAdd(SumOver(s, J \ {j}), s[j])

\* faulty variant of rolling_mean: min_periods = 1
rolling_mean_min_periods_one(s, w) ==
    [i \in 1..Len(s) |->
        LET obs  == Observations(s, w, i)
            nobs == Cardinality(obs)
        IN  IF nobs >= 1 THEN FDiv(SumOver(s, obs), F(nobs)) ELSE NaN]

\* Rolling.mean(): min_periods defaults to the window; NaN unless the window
\* holds min_periods observations and at least one
rolling_mean(s, w) ==
    [i \in 1..Len(s) |->
        LET obs  == Observations(s, w, i)
            nobs == Cardinality(obs)
        IN  IF nobs >= w /\ nobs > 0 THEN FDiv(SumOver(s, obs), F(nobs)) ELSE NaN]

\* Welford's update, as pandas' rolling variance accumulates a window:
\* st = <<nobs, mean, ssqdm>> (mean and ssqdm rationals)
add_var(st, x) ==
    LET nobs  == st[1] + 1
        delta == QAdd(x, QNeg(st[2]))
        mean  == QAdd(st[2], QDiv(delta, QInt(nobs)))
    IN  <<nobs, mean, QAdd(st[3], QMul(delta, QAdd(x, QNeg(mean))))>>

RECURSIVE VarState(_, _)
VarState(s, J) ==
    IF J = {} THEN <<0, QZero, QZero>>
    ELSE LET j == CHOOSE x \in J : \A y \in J : x >= y
         IN  add_var(VarState(s, J \ {j}), s[j].a)

\* the delta degrees of freedom of Rolling.std(): pandas' default
ddof == 1

\* faulty variant of rolling_std: the population standard deviation (ddof = 0)
rolling_std_population(s, w) ==
    [i \in 1..Len(s) |->
        LET obs  == Observations(s, w, i)
            nobs == Cardinality(obs)
        IN  IF nobs >= w /\ nobs > 0
            THEN FSqrt(QDiv(VarState(s, obs)[3], QInt(nobs)))
            ELSE NaN]

\* Rolling.std(): the square root of the variance normalised by nobs - ddof;
\* NaN unless the window holds min_periods observations and more than ddof
rolling_std(s, w) ==
    [i \in 1..Len(s) |->
        LET obs  == Observations(s, w, i)
            nobs == Cardinality(obs)
        IN  IF nobs >= w /\ nobs > ddof
            THEN FSqrt(QDiv(VarState(s, obs)[3], QInt(nobs - ddof)))
            ELSE NaN]

\* what a function call does: return a value or raise
Return(v) == [raised |-> FALSE, value |-> v]
Raise(e)  == [raised |-> TRUE, value |-> e]

-----------------------------------------------------------------------------
(***************************************************************************)
(* finance.py: Technical Analysis Functions.                               *)
(***************************************************************************)

calculate_sma(data, periods) ==
    IF rolling_raises(periods) THEN Raise("ValueError")
    ELSE Return(rolling_mean(Close(data), periods))

calculate_bollinger_bands(data, periods, std_dev) ==
    IF rolling_raises(periods) THEN Raise("ValueError")
    ELSE LET sma == rolling_mean(Close(data), periods)
             std == rolling_std(Close(data), periods)
             upper_band == [i \in 1..Len(data) |-> FAdd(sma[i], FMulInt(std[i], std_dev))]
             lower_band == [i \in 1..Len(data) |-> FSub(sma[i], FMulInt(std[i], std_dev))]
         IN  Return(<<upper_band, lower_band>>)

\* delta.where(delta > 0, 0) and -delta.where(delta < 0, 0): the NaN at the
\* first position of delta becomes 0 in both
gain_terms(delta) == where(delta, gt_zero(delta), F(0))
loss_terms(delta) == [i \in 1..Len(delta) |-> FNeg(where(delta, lt_zero(delta), F(0))[i])]

\* faulty variant of calculate_rsi: a flat window (no gain, no loss) reads 50
calculate_rsi_flat_is_fifty(data, periods) ==
    IF rolling_raises(periods) THEN Raise("ValueError")
    ELSE LET delta == diff(Close(data))
             gain  == rolling_mean(gain_terms(delta), periods)
             loss  == rolling_mean(loss_terms(delta), periods)
             rs    == [i \in 1..Len(data) |-> FDiv(gain[i], loss[i])]
         IN  Return([i \in 1..Len(data) |->
                        IF gain[i] = F(0) /\ loss[i] = F(0) THEN F(50)
                        ELSE FSub(F(100), FDiv(F(100), FAdd(F(1), rs[i])))])

calculate_rsi(data, periods) ==
    IF rolling_raises(periods) THEN Raise("ValueError")
    ELSE LET delta == diff(Close(data))
             gain  == rolling_mean(gain_terms(delta), periods)
             loss  == rolling_mean(loss_terms(delta), periods)
             rs    == [i \in 1..Len(data) |-> FDiv(gain[i], loss[i])]
         IN  Return([i \in 1..Len(data) |->
                        FSub(F(100), FDiv(F(100), FAdd(F(1), rs[i])))])

-----------------------------------------------------------------------------
(***************************************************************************)
(* SpecIndicators: one call of an indicator function.  The price series,   *)
(* the period and the multiplier are drawn from the bounded sets; periods  *)
(* below 1, which the sidebar's number_input (min_value=1) never passes,   *)
(* are included because the functions take any integer.                    *)
(***************************************************************************)
\* bb_std: number_input(min_value=1, max_value=4)
MinStdDev == 1
MaxStdDev == 4
StdDevs == MinStdDev..MaxStdDev

NoCall == [fn |-> "none", periods |-> 0, std_dev |-> 0]

LayoutIdle ==
    /\ pc = "idle"
    /\ flags = [volume_flag |-> FALSE, rsi_flag |-> FALSE, sma_flag |-> FALSE, bb_flag |-> FALSE]
    /\ row_heights = <<>>
    /\ specs = <<>>
    /\ traces = <<>>
    /\ yaxis_titles = <<>>

PollIdle ==
    /\ votes_file = [exists |-> FALSE, rows |-> <<>>]
    /\ voters_file = [exists |-> FALSE, lines |-> <<>>]
    /\ session = <<>>
    /\ ballots = <<>>
    /\ voter_deleted = FALSE
    /\ last = "none"

IndicatorsIdle ==
    /\ close = <<>>
    /\ call = NoCall
    /\ result = Return(<<>>)

InitIndicators ==
    /\ close \in SeqsUpTo(Prices, MaxLen)
    /\ call = NoCall
    /\ result = Return(<<>>)
    /\ LayoutIdle
    /\ PollIdle

CallSMA ==
    /\ call.fn = "none"
    /\ \E p \in Periods :
        /\ call' = [fn |-> "sma", periods |-> p, std_dev |-> 0]
        /\ result' = calculate_sma(close, p)
    /\ UNCHANGED <<close, layoutVars, pollVars>>

CallBollinger ==
    /\ call.fn = "none"
    /\ \E p \in Periods, k \in StdDevs :
        /\ call' = [fn |-> "bb", periods |-> p, std_dev |-> k]
        /\ result' = calculate_bollinger_bands(close, p, k)
    /\ UNCHANGED <<close, layoutVars, pollVars>>

CallRSI ==
    /\ call.fn = "none"
    /\ \E p \in Periods :
        /\ call' = [fn |-> "rsi", periods |-> p, std_dev |-> 0]
        /\ result' = calculate_rsi(close, p)
    /\ UNCHANGED <<close, layoutVars, pollVars>>

NextIndicators == CallSMA \/ CallBollinger \/ CallRSI

SpecIndicators == InitIndicators /\ [][NextIndicators]_vars

-----------------------------------------------------------------------------
(***************************************************************************)
(* Claims about the indicator functions (SpecIndicators).  The reference   *)
(* values below are computed from the closing prices directly, in integer  *)
(* arithmetic, not with the operators that model pandas.                   *)
(***************************************************************************)
Scenario == <<10, 11, 12, 11, 10>>

RECURSIVE IntSum(_, _, _)
IntSum(f, lo, hi) == IF lo > hi THEN 0 ELSE f[hi] + IntSum(f, lo, hi - 1)

IsConstant(s) == \A i, j \in 1..Len(s) : s[i] = s[j]

\* n * (sum of squares) - (sum)^2 over the window lo..hi: n*(n-1) times the
\* sample variance
Squares(s) == [i \in 1..Len(s) |-> s[i] * s[i]]
ScaledVar(s, lo, hi) ==
    (hi - lo + 1) * IntSum(Squares(s), lo, hi) - IntSum(s, lo, hi) * IntSum(s, lo, hi)
SampleStd(s, lo, hi) ==
    FSqrt(QNorm(ScaledVar(s, lo, hi), (hi - lo + 1) * (hi - lo)))

\* the price changes; none at the first bar
Change(s) == [i \in 1..Len(s) |-> IF i = 1 THEN 0 ELSE s[i] - s[i - 1]]
Gains(s)  == [i \in 1..Len(s) |-> IF Change(s)[i] > 0 THEN Change(s)[i] ELSE 0]
Losses(s) == [i \in 1..Len(s) |-> IF Change(s)[i] < 0 THEN 0 - Change(s)[i] ELSE 0]

\* 0 <= x <= 100 for a plain value
InPercentRange(x) ==
    /\ IsPlain(x)
    /\ x.a[1] >= 0
    /\ x.a[1] <= 100 * x.a[2]

\* C4: for every period p >= 1 and series of length n >= p, calculate_sma
\* returns n values, the first p-1 undefined and the other n-p+1 defined, each
\* defined one the arithmetic mean of the p closes ending there; the scenario
\* [10,11,12,11,10], p = 3 gives [undef, undef, 11, 34/3, 11]; a constant
\* series of value v gives v wherever defined.
C4_SmaShapeAndMean ==
    (call.fn = "sma" /\ call.periods >= 1 /\ Len(close) >= call.periods) =>
        LET p == call.periods
            n == Len(close)
        IN  /\ ~result.raised
            /\ Len(result.value) = n
            /\ \A i \in 1..n :
                 IF i < p THEN IsNaN(result.value[i])
                 ELSE /\ IsPlain(result.value[i])
                      /\ QMul(result.value[i].a, QInt(p)) = QInt(IntSum(close, i - p + 1, i))
            /\ Cardinality({i \in 1..n : IsNaN(result.value[i])}) = p - 1
            /\ (close = Scenario /\ p = 3) =>
                 result.value = <<NaN, NaN, F(11), Num(<<34, 3>>), F(11)>>
            /\ IsConstant(close) => \A i \in p..n : result.value[i] = F(close[1])

C4_Witness ==
    /\ call.fn = "sma"
    /\ call.periods = 3
    /\ close = Scenario
    /\ ~result.raised
    /\ result.value[4] = Num(<<34, 3>>)

\* C7: the Bollinger bands are symmetric about the SMA with half-width
\* std_dev times the sample (N-1) standard deviation of the window: where the
\* bands are defined upper - lower = 2*k*stddev and upper + lower = 2*sma;
\* the bands are undefined wherever the SMA is; for a constant series of value
\* v the bands are both v wherever defined.
C7_BandsSymmetric ==
    (call.fn = "bb" /\ ~result.raised) =>
        LET p     == call.periods
            k     == call.std_dev
            upper == result.value[1]
            lower == result.value[2]
            sma   == calculate_sma(close, p).value
        IN  /\ Len(upper) = Len(close)
            /\ Len(lower) = Len(close)
            /\ \A i \in 1..Len(close) :
                 /\ IsNaN(sma[i]) => (IsNaN(upper[i]) /\ IsNaN(lower[i]))
                 /\ IsNaN(upper[i]) <=> IsNaN(lower[i])
                 /\ ~IsNaN(upper[i]) =>
                      /\ p >= 2 /\ i >= p
                      /\ FSub(upper[i], lower[i])
                            = FMulInt(SampleStd(close, i - p + 1, i), 2 * k)
                      /\ FAdd(upper[i], lower[i]) = FMulInt(sma[i], 2)
                      /\ IsConstant(close) =>
                            (upper[i] = F(close[1]) /\ lower[i] = F(close[1]))

C7_Witness ==
    /\ call.fn = "bb"
    /\ call.periods = 3
    /\ call.std_dev = 2
    /\ close = Scenario
    /\ ~result.raised
    /\ result.value[1][3] = Surd(QInt(11), QInt(2), QInt(1))
    /\ result.value[2][3] = Surd(QInt(11), QInt(0 - 2), QInt(1))
    /\ IsNaN(result.value[1][2])

\* C6: where the trailing window holds gains only (average loss 0, average
\* gain > 0) the RSI is exactly 100, where it holds losses only exactly 0, and
\* every defined RSI value is a finite number in [0, 100].
C6_RsiClamped ==
    (call.fn = "rsi" /\ ~result.raised) =>
        LET p == call.periods
        IN  \A i \in 1..Len(close) :
              /\ result.value[i].k \in {"num", "nan"}
              /\ ~IsNaN(result.value[i]) => InPercentRange(result.value[i])
              /\ (p >= 1 /\ i >= p) =>
                   LET G == IntSum(Gains(close), i - p + 1, i)
                       L == IntSum(Losses(close), i - p + 1, i)
                   IN  /\ (L = 0 /\ G > 0) => result.value[i] = F(100)
                       /\ (G = 0 /\ L > 0) => result.value[i] = F(0)

C6_Witness ==
    /\ call.fn = "rsi"
    /\ call.periods = 2
    /\ close = Scenario
    /\ ~result.raised
    /\ result.value[3] = F(100)
    /\ result.value[5] = F(0)
    /\ result.value[4] = F(50)

\* C8: where the trailing window of `period` changes is entirely flat
\* (average gain 0 and average loss 0) calculate_rsi yields an undefined
\* value: not 50, 100 or 0, and it does not raise.
C8_FlatWindowUndefined ==
    (call.fn = "rsi" /\ call.periods >= 1) =>
        /\ ~result.raised
        /\ \A i \in call.periods..Len(close) :
             (/\ IntSum(Gains(close), i - call.periods + 1, i) = 0
              /\ IntSum(Losses(close), i - call.periods + 1, i) = 0)
                => IsNaN(result.value[i])

C8_Witness ==
    /\ call.fn = "rsi"
    /\ call.periods = 2
    /\ close = <<10, 11, 11, 11, 12>>
    /\ ~result.raised
    /\ IsNaN(result.value[4])
    /\ result.value[3] = F(100)

\* C3: RSI(series, period) is undefined at every position (0-based) i < period,
\* that is at the first `period` positions; for closes [10,11,12,11,10] and
\* period 3 the positions 0, 1 and 2 are undefined.
C3_RsiUndefinedBelowPeriod ==
    (call.fn = "rsi" /\ call.periods >= 1 /\ ~result.raised) =>
        \A i \in 1..Len(close) : i <= call.periods => IsNaN(result.value[i])

\* C5: each indicator operation fails when called with period < 1; with
\* period >= 1 and a series shorter than the period it does not fail and
\* returns a series undefined at every position.
C5_PeriodValidated ==
    call.fn # "none" =>
        /\ call.periods < 1 => result.raised
        /\ (call.periods >= 1 /\ Len(close) < call.periods) =>
             /\ ~result.raised
             /\ LET out == IF call.fn = "bb" THEN result.value[1] \o result.value[2]
                           ELSE result.value
                IN  \A i \in 1..Len(out) : IsNaN(out[i])

-----------------------------------------------------------------------------
(***************************************************************************)
(* finance.py, lines 170-303: one run of the script with a non-empty data  *)
(* frame.  Heights are in tenths (0.7 is 7, 1 is 10).                      *)
(***************************************************************************)

\* faulty variant of subplot_row_heights: the volume panel is forgotten when the RSI
\* panel is on
subplot_row_heights_two_rows(volume_flag, rsi_flag) ==
    IF rsi_flag THEN <<7, 3>>
    ELSE IF volume_flag THEN <<7, 3>>
    ELSE <<10>>

\* row_heights of the if / elif / else at lines 173-181
subplot_row_heights(volume_flag, rsi_flag) ==
    IF rsi_flag THEN (IF volume_flag THEN <<6, 2, 2>> ELSE <<7, 3>>)
    ELSE IF volume_flag THEN <<7, 3>>
    ELSE <<10>>

\* specs of the same branches: the secondary_y of each row
subplot_specs(volume_flag, rsi_flag) ==
    IF rsi_flag THEN (IF volume_flag THEN <<TRUE, FALSE, FALSE>> ELSE <<TRUE, FALSE>>)
    ELSE IF volume_flag THEN <<TRUE, FALSE>>
    ELSE <<TRUE>>

\* faulty variant of rsi_row: the RSI panel is always the third row
rsi_row_always_three(volume_flag) == 3

\* row=3 if volume_flag else 2
rsi_row(volume_flag) == IF volume_flag THEN 3 ELSE 2

\* make_subplots(rows=len(row_heights), ...): the rows of the figure
rows == Len(row_heights)

Trace(name, row) == [name |-> name, row |-> row]

InitLayout ==
    /\ pc = "subplots"
    /\ flags \in [volume_flag : BOOLEAN, rsi_flag : BOOLEAN,
                  sma_flag : BOOLEAN, bb_flag : BOOLEAN]
    /\ row_heights = <<>>
    /\ specs = <<>>
    /\ traces = <<>>
    /\ yaxis_titles = <<>>
    /\ IndicatorsIdle
    /\ PollIdle

\* lines 170-190
CreateSubplots ==
    /\ pc = "subplots"
    /\ row_heights' = subplot_row_heights(flags.volume_flag, flags.rsi_flag)
    /\ specs' = subplot_specs(flags.volume_flag, flags.rsi_flag)
    /\ pc' = "candlestick"
    /\ UNCHANGED <<flags, traces, yaxis_titles, indicatorVars, pollVars>>

\* lines 192-203
AddCandlestick ==
    /\ pc = "candlestick"
    /\ traces' = Append(traces, Trace("OHLC", 1))
    /\ pc' = "sma"
    /\ UNCHANGED <<flags, row_heights, specs, yaxis_titles, indicatorVars, pollVars>>

\* lines 205-216
AddSMA ==
    /\ pc = "sma"
    /\ traces' = IF flags.sma_flag THEN Append(traces, Trace("SMA", 1)) ELSE traces
    /\ pc' = "bb"
    /\ UNCHANGED <<flags, row_heights, specs, yaxis_titles, indicatorVars, pollVars>>

\* lines 218-239
AddBollingerBands ==
    /\ pc = "bb"
    /\ traces' = IF flags.bb_flag
                 THEN traces \o <<Trace("Upper BB", 1), Trace("Lower BB", 1)>>
                 ELSE traces
    /\ pc' = "volume"
    /\ UNCHANGED <<flags, row_heights, specs, yaxis_titles, indicatorVars, pollVars>>

\* lines 241-253
AddVolume ==
    /\ pc = "volume"
    /\ traces' = IF flags.volume_flag THEN Append(traces, Trace("Volume", 2)) ELSE traces
    /\ pc' = "rsi"
    /\ UNCHANGED <<flags, row_heights, specs, yaxis_titles, indicatorVars, pollVars>>

\* lines 255-280: the RSI line and the two threshold lines
AddRSI ==
    /\ pc = "rsi"
    /\ traces' = IF flags.rsi_flag
                 THEN traces \o <<Trace("RSI", rsi_row(flags.volume_flag)),
                                  Trace("RSI Upper", rsi_row(flags.volume_flag)),
                                  Trace("RSI Lower", rsi_row(flags.volume_flag))>>
                 ELSE traces
    /\ pc' = "layout"
    /\ UNCHANGED <<flags, row_heights, specs, yaxis_titles, indicatorVars, pollVars>>

\* lines 282-295: titles and legend only
UpdateLayout ==
    /\ pc = "layout"
    /\ pc' = "yaxes"
    /\ UNCHANGED <<flags, row_heights, specs, traces, yaxis_titles, indicatorVars, pollVars>>

\* lines 297-303
UpdateYAxes ==
    /\ pc = "yaxes"
    /\ yaxis_titles' =
         (IF flags.volume_flag THEN <<Trace("Volume", 2)>> ELSE <<>>)
         \o (IF flags.rsi_flag THEN <<Trace("RSI", rsi_row(flags.volume_flag))>> ELSE <<>>)
    /\ pc' = "done"
    /\ UNCHANGED <<flags, row_heights, specs, traces, indicatorVars, pollVars>>

NextLayout ==
    \/ CreateSubplots
    \/ AddCandlestick
    \/ AddSMA
    \/ AddBollingerBands
    \/ AddVolume
    \/ AddRSI
    \/ UpdateLayout
    \/ UpdateYAxes

SpecLayout == InitLayout /\ [][NextLayout]_vars

-----------------------------------------------------------------------------
(***************************************************************************)
(* Claims about the layout (SpecLayout).                                   *)
(***************************************************************************)
RECURSIVE SeqSum(_)
SeqSum(s) == IF s = <<>> THEN 0 ELSE Head(s) + SeqSum(Tail(s))

Bit(b) == IF b THEN 1 ELSE 0

Placed(name) == {traces[i].row : i \in {j \in 1..Len(traces) : traces[j].name = name}}
Titled(title) ==
    {yaxis_titles[i].row : i \in {j \in 1..Len(yaxis_titles) : yaxis_titles[j].name = title}}

\* C1: the plan depends on (volume_flag, rsi_flag) only; (F,F) -> heights
\* [1.0]; (T,F) and (F,T) -> [0.7, 0.3]; (T,T) -> [0.6, 0.2, 0.2]; the heights
\* sum to 1.0, there is one panel spec per height, and the number of rows is
\* 1 + volume + rsi.
C1_PlanTable ==
    pc # "subplots" =>
        /\ row_heights =
             (CASE ~flags.volume_flag /\ ~flags.rsi_flag -> <<10>>
                [] flags.volume_flag /\ ~flags.rsi_flag  -> <<7, 3>>
                [] ~flags.volume_flag /\ flags.rsi_flag  -> <<7, 3>>
                [] flags.volume_flag /\ flags.rsi_flag   -> <<6, 2, 2>>)
        /\ SeqSum(row_heights) = 10
        /\ Len(specs) = Len(row_heights)
        /\ rows = 1 + Bit(flags.volume_flag) + Bit(flags.rsi_flag)

C1_Witness ==
    /\ pc = "done"
    /\ flags.volume_flag /\ flags.rsi_flag /\ ~flags.sma_flag /\ flags.bb_flag
    /\ row_heights = <<6, 2, 2>>
    /\ specs = <<TRUE, FALSE, FALSE>>

\* C2: every trace goes to a row of the plan, in the order Price, Volume, RSI:
\* candlestick, SMA and both Bollinger traces to row 1; volume bars to row 2
\* and only when volume is on; the RSI line, both threshold lines and the RSI
\* axis title to row 3 when volume is on and to row 2 otherwise; no row number
\* exceeds len(row_heights); volume and RSI never share a row.
C2_TracePlacement ==
    /\ \A i \in 1..Len(traces) : traces[i].row \in 1..rows
    /\ \A i \in 1..Len(yaxis_titles) : yaxis_titles[i].row \in 1..rows
    /\ \A n \in {"OHLC", "SMA", "Upper BB", "Lower BB"} : Placed(n) \subseteq {1}
    /\ Placed("Volume") \subseteq {2}
    /\ Placed("Volume") # {} => flags.volume_flag
    /\ \A n \in {"RSI", "RSI Upper", "RSI Lower"} :
         /\ Placed(n) \subseteq {IF flags.volume_flag THEN 3 ELSE 2}
         /\ Placed(n) # {} => flags.rsi_flag
         /\ Placed(n) \cap Placed("Volume") = {}
    /\ Titled("Volume") \subseteq {2}
    /\ Titled("RSI") \subseteq {IF flags.volume_flag THEN 3 ELSE 2}
    /\ pc = "done" =>
         /\ Placed("OHLC") = {1}
         /\ Placed("SMA") = (IF flags.sma_flag THEN {1} ELSE {})
         /\ Placed("Upper BB") = (IF flags.bb_flag THEN {1} ELSE {})
         /\ Placed("Lower BB") = (IF flags.bb_flag THEN {1} ELSE {})
         /\ Placed("Volume") = (IF flags.volume_flag THEN {2} ELSE {})
         /\ Titled("Volume") = Placed("Volume")
         /\ \A n \in {"RSI", "RSI Upper", "RSI Lower"} : Placed(n) = Titled("RSI")
         /\ Titled("RSI") = (IF flags.rsi_flag THEN {rows} ELSE {})

C2_Witness ==
    /\ pc = "done"
    /\ flags.rsi_flag /\ ~flags.volume_flag /\ flags.sma_flag /\ flags.bb_flag
    /\ rows = 2
    /\ Placed("RSI") = {2}
    /\ Placed("RSI Lower") = {2}
    /\ Titled("RSI") = {2}
    /\ Placed("Lower BB") = {1}

-----------------------------------------------------------------------------
(***************************************************************************)
(* App.py: the poll.  Streamlit runs the whole script once per browser     *)
(* session when the page is opened and again on every widget interaction;  *)
(* st.session_state is private to the session, the two files are shared by *)
(* all of them.  One action is one script run.  show_results, which only   *)
(* selects what is displayed, is left out.  Names are single-line texts    *)
(* (st.text_input) without line-break characters.                          *)
(***************************************************************************)
MaxVotes == 2       \* votes submitted in one behaviour

Sessions == {"s1", "s2"}
Names    == {"ann", "bob"}

\* the keys of the dict of load_votes, in its order
OptionOrder == <<"Baddieverse.ai", "Snapslay.ai", "Photodrip.ai",
                 "photodripai.com", "Baddiegen.ai", "Slaymode.ai">>
Options == {OptionOrder[i] : i \in 1..Len(OptionOrder)}

ADMIN_PASSWORD == "your_admin_password_here"
Passwords == {ADMIN_PASSWORD, "guess"}

RECURSIVE SetSum(_, _)
SetSum(f, S) ==
    IF S = {} THEN 0
    ELSE LET x == CHOOSE y \in S : TRUE IN f[x] + SetSum(f, S \ {x})

\* sum(votes.values())
total_votes(votes) == SetSum(votes, DOMAIN votes)

\* the orders a set can be iterated in
Orders(S) == {o \in [1..Cardinality(S) -> S] : \A x \in S : \E i \in DOMAIN o : o[i] = x}

\* load_votes(): the option -> votes dict of the CSV, or the six zeros
load_votes ==
    IF votes_file.exists
    THEN [o \in {votes_file.rows[i][1] : i \in 1..Len(votes_file.rows)} |->
             LET i == CHOOSE j \in 1..Len(votes_file.rows) : votes_file.rows[j][1] = o
             IN  votes_file.rows[i][2]]
    ELSE [o \in Options |-> 0]

\* save_votes(votes): one row per item of the dict
save_votes(votes) ==
    [exists |-> TRUE,
     rows   |-> [i \in 1..Len(OptionOrder) |-> <<OptionOrder[i], votes[OptionOrder[i]]>>]]

\* load_voters(): set(f.read().splitlines()), or the empty set
load_voters ==
    IF voters_file.exists
    THEN {voters_file.lines[i] : i \in 1..Len(voters_file.lines)}
    ELSE {}

\* save_voters(voters): the names joined by '\n' in the set's iteration order,
\* which is any order
save_voters(voters) == {[exists |-> TRUE, lines |-> o] : o \in Orders(voters)}

\* faulty variant of add_vote: the tally is set to 1 instead of incremented
add_vote_sets_one(votes, vote) == [votes EXCEPT ![vote] = 1]

\* st.session_state.votes[vote] += 1
add_vote(votes, vote) == [votes EXCEPT ![vote] = @ + 1]

NotStarted ==
    [started |-> FALSE, votes |-> [o \in Options |-> 0], voters |-> {},
     name |-> "", show_admin |-> FALSE]

\* the script shows 'You have already voted!' instead of the voting interface
already_voted(s) == session[s].name # "" /\ session[s].name \in session[s].voters

\* the Submit Vote button is rendered
can_submit(s) == session[s].name # "" /\ session[s].name \notin session[s].voters

InitPoll ==
    /\ votes_file = [exists |-> FALSE, rows |-> <<>>]
    /\ voters_file = [exists |-> FALSE, lines |-> <<>>]
    /\ session = [s \in Sessions |-> NotStarted]
    /\ ballots = [n \in Names |-> 0]
    /\ voter_deleted = FALSE
    /\ last = "none"
    /\ IndicatorsIdle
    /\ LayoutIdle

\* first run of a session, lines 47-59: session_state is filled from the files
OpenPage(s) ==
    /\ ~session[s].started
    /\ session' = [session EXCEPT ![s] =
                      [started |-> TRUE, votes |-> load_votes, voters |-> load_voters,
                       name |-> "", show_admin |-> FALSE]]
    /\ last' = "open"
    /\ UNCHANGED <<votes_file, voters_file, ballots, voter_deleted, indicatorVars, layoutVars>>

\* the browser tab is closed: the session and its state are gone
ClosePage(s) ==
    /\ session[s].started
    /\ session' = [session EXCEPT ![s] = NotStarted]
    /\ last' = "close"
    /\ UNCHANGED <<votes_file, voters_file, ballots, voter_deleted, indicatorVars, layoutVars>>

\* line 65: the name box is edited; the rerun records nothing
EnterName(s, n) ==
    /\ session[s].started
    /\ session' = [session EXCEPT ![s].name = n]
    /\ last' = "name"
    /\ UNCHANGED <<votes_file, voters_file, ballots, voter_deleted, indicatorVars, layoutVars>>

\* lines 68-90: Submit Vote is clicked (it is rendered only for a name that is
\* not in the session's voters)
SubmitVote(s, vote) ==
    /\ session[s].started
    /\ can_submit(s)
    /\ SetSum(ballots, Names) < MaxVotes
    /\ LET votes  == add_vote(session[s].votes, vote)
           voters == session[s].voters \cup {session[s].name}
       IN  /\ session' = [session EXCEPT ![s].votes = votes, ![s].voters = voters]
           /\ votes_file' = save_votes(votes)
           /\ voters_file' \in save_voters(voters)
    /\ ballots' = [ballots EXCEPT ![session[s].name] = @ + 1]
    /\ last' = "submit"
    /\ UNCHANGED <<voter_deleted, indicatorVars, layoutVars>>

\* lines 151-157
LoginAsAdmin(s, admin_password) ==
    /\ session[s].started
    /\ session' = [session EXCEPT ![s].show_admin =
                      IF admin_password = ADMIN_PASSWORD THEN TRUE ELSE @]
    /\ last' = "login"
    /\ UNCHANGED <<votes_file, voters_file, ballots, voter_deleted, indicatorVars, layoutVars>>

\* lines 166-171
DeleteAllVotes(s) ==
    /\ session[s].started
    /\ session[s].show_admin
    /\ LET votes == [o \in DOMAIN session[s].votes |-> 0]
       IN  /\ session' = [session EXCEPT ![s].votes = votes, ![s].voters = {}]
           /\ votes_file' = save_votes(votes)
           /\ voters_file' \in save_voters({})
    /\ last' = "delete_all"
    /\ UNCHANGED <<ballots, voter_deleted, indicatorVars, layoutVars>>

\* lines 175-181: the select box offers the session's voters, or 'No voters'
DeleteSelectedVoter(s, voter_to_delete) ==
    /\ session[s].started
    /\ session[s].show_admin
    /\ voter_to_delete \in
         (IF session[s].voters # {} THEN session[s].voters ELSE {"No voters"})
    /\ IF voter_to_delete \in session[s].voters
       THEN LET voters == session[s].voters \ {voter_to_delete}
            IN  /\ session' = [session EXCEPT ![s].voters = voters]
                /\ voters_file' \in save_voters(voters)
                /\ voter_deleted' = TRUE
       ELSE UNCHANGED <<session, voters_file, voter_deleted>>
    /\ last' = "delete_voter"
    /\ UNCHANGED <<votes_file, ballots, indicatorVars, layoutVars>>

NextPoll ==
    \E s \in Sessions :
        \/ OpenPage(s)
        \/ ClosePage(s)
        \/ \E n \in Names \cup {""} : EnterName(s, n)
        \/ \E vote \in Options : SubmitVote(s, vote)
        \/ \E pw \in Passwords : LoginAsAdmin(s, pw)
        \/ DeleteAllVotes(s)
        \/ \E v \in Names \cup {"No voters"} : DeleteSelectedVoter(s, v)

\* any number of sessions (two here) that open, close and interleave freely
SpecPoll == InitPoll /\ [][NextPoll]_vars

\* one session, opened once with no data files
NextPollSingle ==
    \/ OpenPage("s1")
    \/ \E n \in Names \cup {""} : EnterName("s1", n)
    \/ \E vote \in Options : SubmitVote("s1", vote)
    \/ \E pw \in Passwords : LoginAsAdmin("s1", pw)
    \/ DeleteAllVotes("s1")
    \/ \E v \in Names \cup {"No voters"} : DeleteSelectedVoter("s1", v)

SpecPollSingle == InitPoll /\ [][NextPollSingle]_vars

-----------------------------------------------------------------------------
(***************************************************************************)
(* Claims about the poll.                                                  *)
(***************************************************************************)

\* C9: a name whose vote is recorded and persisted (and not removed by an
\* admin deletion) never has a second vote recorded, for any number of
\* sessions sharing the files and any interleaving of their runs: no vote is
\* recorded under a name that is in the persisted voter set, and a Submit Vote
\* loses no persisted voter and lowers no persisted tally.
C9_OneVotePerName ==
    [][/\ \A n \in Names : n \in load_voters => ballots'[n] = ballots[n]
       /\ last' = "submit" =>
            /\ load_voters \subseteq load_voters'
            /\ \A o \in Options : load_votes'[o] >= load_votes[o]]_vars

\* the session of SpecPollSingle
S1 == session["s1"]

C10_State ==
    S1.started =>
        /\ \A o \in Options : S1.votes[o] >= 0
        /\ total_votes(S1.votes) >= Cardinality(S1.voters)
        /\ ~voter_deleted => total_votes(S1.votes) = Cardinality(S1.voters)
        /\ load_votes = S1.votes
        /\ load_voters = S1.voters

C10_Step ==
    /\ last' = "submit" =>
         /\ \E o \in Options : S1'.votes = [S1.votes EXCEPT ![o] = @ + 1]
         /\ S1.name \notin S1.voters
         /\ S1'.voters = S1.voters \cup {S1.name}
    /\ last' = "delete_all" =>
         /\ \A o \in Options : S1'.votes[o] = 0
         /\ S1'.voters = {}
    /\ last' = "delete_voter" =>
         /\ S1'.votes = S1.votes
         /\ \/ S1.voters = {} /\ S1'.voters = {}
            \/ \E v \in S1.voters : S1'.voters = S1.voters \ {v}

\* C10: in a single session started with no data files, after any sequence of
\* Submit Vote, Delete All Votes and Delete Selected Voter: every tally is
\* >= 0; the tallies sum to at least the number of voters, and to exactly that
\* number while Delete Selected Voter has removed nobody; Submit Vote adds 1
\* to exactly one tally and adds exactly the submitting name; Delete All Votes
\* zeroes every tally and empties the voters; Delete Selected Voter removes
\* only the selected name and changes no tally; and the files hold exactly the
\* session's tallies and voters.
C10_SingleSession == []C10_State /\ [][C10_Step]_vars

C10_Witness ==
    /\ last = "submit"
    /\ voter_deleted
    /\ S1.voters = {"bob"}
    /\ total_votes(S1.votes) = 2
    /\ S1.votes["Snapslay.ai"] = 2
    /\ load_votes = S1.votes
    /\ load_voters = {"bob"}

=============================================================================
